---- MODULE Spec2Model ----
(***************************************************************************)
(* Turn-taking logic of the mock-interview page (src/src/App.tsx, the      *)
(* TypeScript component at lines 199-381).                                 *)
(*                                                                         *)
(* App is a React function component.  Every render runs the function body *)
(* again: the useState values are constants of that render, a new          *)
(* SpeechRecognition object is constructed (lines 209-216), and the        *)
(* functions startListening, stopListening, speak, sendToGemini and the    *)
(* handlers recognition.onresult and utterance.onend are closures over the *)
(* values of the render that created them.  A callback that outlives its   *)
(* render (an utterance's onend, the 800 ms timer, the recogniser's        *)
(* onresult, the continuation of sendToGemini after its awaits) therefore  *)
(* reads the state as it was in that render, while the setters write the   *)
(* component's current state.  The model keeps both: the six state         *)
(* variables hold the current (committed) state, and every pending         *)
(* callback carries the snapshot of the render it closes over.             *)
(*                                                                         *)
(* The button handlers (onClick, lines 354 and 360) always belong to the   *)
(* latest render, whose snapshot is the committed state.  All state        *)
(* updates of one handler are committed together and followed by one       *)
(* render before the next event is handled.                                *)
(***************************************************************************)
EXTENDS Integers, Sequences, FiniteSets, TLC

\* ---------------------------------------------------------------- bounds
\* Largest value of the turn counter explored (ReplyReceived is cut there).
MaxCount == 6

\* Largest number of callbacks pending at once (queued utterances, timers,
\* started recognisers, requests); startInterview is cut there.
MaxPending == 2

\* Most exchanges (candidate turn + interviewer turn) in the transcript that
\* a render which starts a new session while one is active may have captured.
MaxCaptured == 1

\* ------------------------------------------------------------- constants
QuestionLimit == 5

FirstQuestion == "Hello! Let's start the interview. Tell me about yourself."

Fallback == "Sorry, I couldn't understand."

EndedText == "Interview ended. Thank you!"

systemPrompt == "\nYou are an AI interviewer.\n- Ask one unique question at a time.\n- Never repeat a previous question from this conversation.\n- After each answer, respond with a short acknowledgment, then the next question.\n- Stop after 5 total questions and thank the candidate politely.\n"

\* Texts the recogniser can deliver (event.results[0][0].transcript).
Answers == {"a1"}

\* Response bodies of the model endpoint, as far as line 296 reads them:
\* hasText is whether the path candidates[0].content.parts[0].text exists,
\* text is the string found there (possibly empty).
Payloads ==
  { [hasText |-> TRUE,  text |-> "Next question?"],
    [hasText |-> TRUE,  text |-> ""],
    [hasText |-> FALSE, text |-> ""] }

VARIABLES
  conversation,       \* useState<Message[]>  (line 200)
  userText,           \* line 201
  aiText,             \* line 202
  questionCount,      \* line 203
  isProcessing,       \* line 204
  isInterviewActive,  \* line 205
  recognition,        \* whether the host has a speech recogniser (209-216)
  render,             \* name of the latest render of App
  listening,          \* renders whose recognition object is started
  speech,             \* the speechSynthesis queue, head is being spoken
  timers,             \* pending setTimeout callbacks of line 251
  requests            \* sendToGemini calls suspended at an await

vars == << conversation, userText, aiText, questionCount, isProcessing,
           isInterviewActive, recognition, render, listening, speech,
           timers, requests >>

\* ------------------------------------------------------------ closures
\* The values a closure of the latest render captures.
CurrentSnap ==
  [ render            |-> render,
    conversation      |-> conversation,
    questionCount     |-> questionCount,
    isProcessing      |-> isProcessing,
    isInterviewActive |-> isInterviewActive ]

Message(role, text) == [role |-> role, text |-> text]

\* The renders some pending callback closes over.
LiveRenders(L, Q, T, R) ==
  { l.render : l \in L } \cup { Q[i].snap.render : i \in DOMAIN Q }
    \cup { t.render : t \in T } \cup { r.snap.render : r \in R }

\* lines 199-216: a render runs the body of App again and constructs a new
\* recognition object.  Renders are only ever compared for identity
\* (stopListening stops the object of its own render), so a new render is
\* named by the least number that no pending callback holds.
NewRender(L, Q, T, R) ==
  CHOOSE n \in 0 .. Cardinality(LiveRenders(L, Q, T, R)) :
    /\ n \notin LiveRenders(L, Q, T, R)
    /\ \A m \in 0 .. n - 1 : m \in LiveRenders(L, Q, T, R)

\* Number of pending callbacks.
Pending == Cardinality(listening) + Len(speech) + Cardinality(timers)
             + Cardinality(requests)

\* ------------------------------------------------------ pure helpers
\* line 236: the condition under which startListening calls recognition.start
StartListeningGuard(s) ==
  recognition /\ ~s.isProcessing /\ s.isInterviewActive

\* lines 239-241: stopListening stops the recognition object of its own render
stopListening(s, L) == { l \in L : l.render # s.render }

\* line 250: the condition under which onend queues the re-activation
OnEndGuard(s) ==
  s.isInterviewActive /\ s.questionCount < QuestionLimit

\* line 260: the early return of sendToGemini (TRUE = the request goes on)
SendGuard(s) ==
  ~(s.isProcessing \/ ~s.isInterviewActive)

\* A faulty variant of UpdatedConversation, for comparison: the captured
\* utterance is left out.
UpdatedConversationDropped(conv, message) == conv

\* A faulty variant of UpdatedConversation, for comparison: the captured
\* utterance is filed as an interviewer turn.
UpdatedConversationAsModel(conv, message) ==
  Append(conv, Message("model", message))

\* lines 263-266
UpdatedConversation(conv, message) ==
  Append(conv, Message("user", message))

\* lines 283-289: the contents array of the request body
RequestContents(updated) ==
  << Message("user", systemPrompt) >> \o updated

\* lines 295-297: optional chaining, then || with the fallback
AiReply(data) ==
  IF data.hasText /\ data.text # "" THEN data.text ELSE Fallback

\* A faulty variant of NextCount, for comparison: the counter skips a turn.
NextCountTwice(prev) == prev + 2

\* line 305: the functional update of the counter
NextCount(prev) == prev + 1

\* lines 243-257, effect of speak on the recognisers
SpeakListening(s, L) ==
  IF ~s.isInterviewActive THEN L ELSE stopListening(s, L)

\* lines 243-257, effect of speak on the speechSynthesis queue
SpeakQueue(s, text, Q) ==
  IF ~s.isInterviewActive THEN Q
  ELSE Append(Q, [text |-> text, snap |-> s])

\* ---------------------------------------------------------------- Init
Init ==
  /\ conversation = << >>
  /\ userText = ""
  /\ aiText = ""
  /\ questionCount = 0
  /\ isProcessing = FALSE
  /\ isInterviewActive = FALSE
  /\ recognition \in BOOLEAN
  /\ render = 0
  /\ listening = {}
  /\ speech = << >>
  /\ timers = {}
  /\ requests = {}

\* ------------------------------------------------------------- actions
\* lines 314-322, onClick of the start button
startInterview ==
  /\ isInterviewActive =>
       Pending < MaxPending /\ Len(conversation) <= 2 * MaxCaptured
  /\ isInterviewActive' = TRUE
  /\ conversation' = << >>
  /\ questionCount' = 1
  /\ aiText' = FirstQuestion
  /\ listening' = SpeakListening(CurrentSnap, listening)
  /\ speech' = SpeakQueue(CurrentSnap, FirstQuestion, speech)
  /\ UNCHANGED << userText, isProcessing, recognition, timers, requests >>
  /\ render' = NewRender(listening', speech', timers', requests')

\* lines 324-330, onClick of the stop button.  speechSynthesis.cancel()
\* empties the queue; the interrupted utterance gets an error event, not
\* an end event, and the code registers no error handler.
stopInterview ==
  /\ isInterviewActive' = FALSE
  /\ questionCount' = QuestionLimit
  /\ listening' = stopListening(CurrentSnap, listening)
  /\ speech' = << >>
  /\ aiText' = EndedText
  /\ UNCHANGED << conversation, userText, isProcessing, recognition,
                  timers, requests >>
  /\ render' = IF isInterviewActive \/ questionCount # QuestionLimit
                  \/ aiText # EndedText
               THEN NewRender(listening', speech', timers', requests')
               ELSE render

\* lines 249-255: the utterance at the head of the queue finishes
UtteranceEnd ==
  /\ speech # << >>
  /\ speech' = Tail(speech)
  /\ timers' = IF OnEndGuard(Head(speech).snap)
               THEN timers \cup {Head(speech).snap} ELSE timers
  /\ UNCHANGED << conversation, userText, aiText, questionCount,
                  isProcessing, isInterviewActive, recognition, render,
                  listening, requests >>

\* lines 251-253 and 235-237: the 800 ms timer fires and calls startListening
TimerFire(t) ==
  /\ t \in timers
  /\ timers' = timers \ {t}
  /\ listening' = IF StartListeningGuard(t) THEN listening \cup {t}
                  ELSE listening
  /\ UNCHANGED << conversation, userText, aiText, questionCount,
                  isProcessing, isInterviewActive, recognition, render,
                  speech, requests >>

\* lines 222-227 and 259-266, 276-292: a started recogniser delivers a result
RecognitionResult(s, text) ==
  /\ s \in listening
  /\ userText' = text
  /\ listening' = stopListening(s, listening)
  /\ IF SendGuard(s)
     THEN /\ isProcessing' = TRUE
          /\ requests' = requests \cup
               { [ snap     |-> s,
                   message  |-> text,
                   contents |-> RequestContents(
                                  UpdatedConversation(s.conversation, text)) ] }
     ELSE UNCHANGED << isProcessing, requests >>
  /\ UNCHANGED << conversation, aiText, questionCount, isInterviewActive,
                  recognition, speech, timers >>
  /\ render' = IF userText # text \/ (SendGuard(s) /\ ~isProcessing)
               THEN NewRender(listening', speech', timers', requests')
               ELSE render

\* lines 229-231: the recogniser ends without a result; onend does nothing
RecognitionEnd(s) ==
  /\ s \in listening
  /\ listening' = listening \ {s}
  /\ UNCHANGED << conversation, userText, aiText, questionCount,
                  isProcessing, isInterviewActive, recognition, render,
                  speech, timers, requests >>

\* lines 294-306 and 309-311: fetch and res.json() resolve with body data
ReplyReceived(r, data) ==
  /\ r \in requests
  /\ questionCount < MaxCount
  /\ requests' = requests \ {r}
  /\ conversation' =
       Append(UpdatedConversation(r.snap.conversation, r.message),
              Message("model", AiReply(data)))
  /\ aiText' = AiReply(data)
  /\ questionCount' = NextCount(questionCount)
  /\ listening' = SpeakListening(r.snap, listening)
  /\ speech' = SpeakQueue(r.snap, AiReply(data), speech)
  /\ isProcessing' = FALSE
  /\ UNCHANGED << userText, isInterviewActive, recognition, timers >>
  /\ render' = NewRender(listening', speech', timers', requests')

\* A faulty variant of ReplyFailed, for comparison: no finally block, the
\* busy flag is left as it is.
ReplyFailedNoFinally(r) ==
  /\ r \in requests
  /\ requests' = requests \ {r}
  /\ UNCHANGED << conversation, userText, aiText, questionCount, isProcessing,
                  isInterviewActive, recognition, listening, speech, timers,
                  render >>

\* A faulty variant of ReplyFailed, for comparison: the catch block goes on
\* as if a body without reply text had been received.
ReplyFailedWithFallback(r) ==
  ReplyReceived(r, [hasText |-> FALSE, text |-> ""])

\* lines 307-311: fetch or res.json() rejects; catch logs, finally clears busy
ReplyFailed(r) ==
  /\ r \in requests
  /\ requests' = requests \ {r}
  /\ isProcessing' = FALSE
  /\ UNCHANGED << conversation, userText, aiText, questionCount,
                  isInterviewActive, recognition, listening, speech, timers >>
  /\ render' = IF isProcessing
               THEN NewRender(listening', speech', timers', requests')
               ELSE render

Next ==
  \/ startInterview
  \/ stopInterview
  \/ UtteranceEnd
  \/ \E t \in timers : TimerFire(t)
  \/ \E s \in listening, text \in Answers : RecognitionResult(s, text)
  \/ \E s \in listening : RecognitionEnd(s)
  \/ \E r \in requests, data \in Payloads : ReplyReceived(r, data)
  \/ \E r \in requests : ReplyFailed(r)

Spec == Init /\ [][Next]_vars

\* ============================================================== claims
Last(q) == q[Len(q)]

\* The opening question / a reply has been handed to speechSynthesis.speak
\* by this step: it is the newest utterance of the queue.
Spoken(text) == speech' # << >> /\ Last(speech').text = text

\* C1: while a session is running (it has not ended) the turn counter never
\* exceeds 5, and no step of the running session other than a new start
\* lowers it.
C1_TurnCounterBounded ==
  [][ /\ isInterviewActive' => questionCount' <= QuestionLimit
      /\ (isInterviewActive /\ ~startInterview)
            => questionCount' >= questionCount ]_vars

\* C2: at most one model request is outstanding at any time, and busy is
\* true for as long as one is.
C2_OneRequestOutstanding ==
  /\ Cardinality(requests) <= 1
  /\ requests # {} => isProcessing

\* C3: recognition.start is never called at a moment when the session is
\* inactive or a model request is in flight (busy).
C3_StartOnlyWhenActiveAndIdle ==
  [][ listening' \subseteq listening
        \/ (isInterviewActive /\ ~isProcessing) ]_vars

\* C4: once the turn counter of the running session has reached 5, no
\* recognition.start occurs any more.
C4_NoListeningAfterLimit ==
  [][ (isInterviewActive /\ questionCount >= QuestionLimit)
        => listening' \subseteq listening ]_vars

\* C5: stop, in any state, leaves the session inactive with the counter at
\* the limit, the speech queue cancelled, no recogniser listening and the
\* status text "Interview ended. Thank you!".
C5_StopEndsSession ==
  [][ stopInterview =>
        /\ ~isInterviewActive'
        /\ questionCount' = QuestionLimit
        /\ speech' = << >>
        /\ listening' = {}
        /\ aiText' = EndedText ]_vars

\* C6: start, in any state (Idle included), clears the transcript, sets the
\* counter to 1 and hands the opening question to the speech output.
C6_StartSpeaksOpening ==
  [][ startInterview =>
        /\ conversation' = << >>
        /\ questionCount' = 1
        /\ Spoken(FirstQuestion) ]_vars

\* C7: when a reply carrying a (non-empty) text T is received for an
\* outstanding request, the last turn of the transcript becomes the
\* interviewer turn T and the counter grows by exactly 1.
C7_ReplyRecorded ==
  [][ \A r \in requests, data \in Payloads :
        (ReplyReceived(r, data) /\ data.hasText /\ data.text # "") =>
          /\ conversation' # << >>
          /\ Last(conversation') = Message("model", data.text)
          /\ questionCount' = questionCount + 1 ]_vars

\* C7 witness: the first reply of a session, carrying "Next question?", has
\* been recorded and counted.
C7_Witness ==
  /\ Len(conversation) = 2
  /\ conversation[2] = Message("model", "Next question?")
  /\ questionCount = 2
  /\ isInterviewActive

\* C8: every request that ends in a malformed body or in a failure (fetch or
\* res.json() rejects) yields the fallback reply, shown and spoken.
C8_FailureFallsBack ==
  [][ \A r \in requests :
        /\ ReplyFailed(r) => (aiText' = Fallback /\ Spoken(Fallback))
        /\ \A data \in Payloads :
             (ReplyReceived(r, data) /\ ~(data.hasText /\ data.text # ""))
               => (aiText' = Fallback /\ Spoken(Fallback)) ]_vars

\* C9: every request issued carries the system instruction followed by the
\* whole transcript recorded so far and then the utterance just captured.
C9_RequestCarriesTranscript ==
  [][ \A r \in requests' \ requests :
        r.contents = << Message("user", systemPrompt) >> \o conversation
                       \o << Message("user", r.message) >> ]_vars

\* C10: at most one of listening, awaiting a reply and speaking is active.
C10_OneActivity ==
  Cardinality({ a \in {"listening", "awaiting", "speaking"} :
                  \/ a = "listening" /\ listening # {}
                  \/ a = "awaiting" /\ requests # {}
                  \/ a = "speaking" /\ speech # << >> }) <= 1

\* C11: a reply that arrives while the session is stopped (stop was invoked
\* while its request was outstanding and no new start followed) hands
\* nothing to the speech output.
C11_NoSpeechAfterStop ==
  [][ \A r \in requests, data \in Payloads :
        (ReplyReceived(r, data) /\ ~isInterviewActive)
          => speech' = speech ]_vars

\* C12: when the utterance being spoken finishes with the turn counter at 5,
\* the session becomes inactive (Ended) without stop being invoked.
C12_EndsAtLimit ==
  [][ (UtteranceEnd /\ questionCount = QuestionLimit)
        => ~isInterviewActive' ]_vars

\* q is an initial part of p.
IsPrefix(q, p) ==
  Len(q) <= Len(p) /\ \A i \in 1 .. Len(q) : q[i] = p[i]

\* C13: between one start and the next the transcript is append-only: every
\* step other than start keeps the recorded turns as a prefix, and a reply
\* adds turns at the end.
C13_TranscriptAppendOnly ==
  [][ /\ startInterview \/ IsPrefix(conversation, conversation')
      /\ \A r \in requests, data \in Payloads :
           ReplyReceived(r, data) => Len(conversation') > Len(conversation)
    ]_vars

\* C14: when a request fails (fetch or res.json() rejects) the user is shown
\* and told the fallback line and the turn counter advances by one.
C14_FailureShownAndCounted ==
  [][ \A r \in requests :
        ReplyFailed(r) =>
          /\ aiText' = Fallback
          /\ Spoken(Fallback)
          /\ questionCount' = questionCount + 1 ]_vars

\* C15 as stated: on capture the recogniser is stopped and the captured text
\* is at once the last (candidate) turn of the transcript, before any reply.
C15_RecordedOnCapture ==
  [][ \A s \in listening, text \in Answers :
        (RecognitionResult(s, text) /\ SendGuard(s)) =>
          /\ s \notin listening'
          /\ conversation' # << >>
          /\ Last(conversation') = Message("user", text) ]_vars

\* C15 as amended: on capture the capturing recogniser is stopped, the
\* transcript is left as it is and the captured text travels as the last
\* entry of the request issued; the candidate turn enters the transcript
\* when the reply is received, right before the interviewer turn.
C15_RecordedWithReply ==
  [][ /\ \A s \in listening, text \in Answers :
           (RecognitionResult(s, text) /\ SendGuard(s)) =>
             /\ s \notin listening'
             /\ conversation' = conversation
             /\ \E r \in requests' \ requests :
                  /\ r.message = text
                  /\ Last(r.contents) = Message("user", text)
      /\ \A r \in requests, data \in Payloads :
           ReplyReceived(r, data) =>
             /\ Len(conversation') >= 2
             /\ conversation'[Len(conversation') - 1]
                  = Message("user", r.message) ]_vars

\* C15 witness: an utterance has been captured and its request is
\* outstanding, the capturing recogniser is stopped and the transcript does
\* not hold the candidate turn yet.
C15_Witness ==
  \E r \in requests :
    /\ r.message = userText
    /\ r.snap \notin listening
    /\ conversation = << >>

\* C16: whenever an utterance finishes while the session is active, no
\* request is in flight and fewer than 5 questions have been asked, the
\* delayed re-activation of listening is queued.
C16_ListeningReactivated ==
  [][ (UtteranceEnd /\ isInterviewActive /\ ~isProcessing
         /\ questionCount < QuestionLimit)
        => Head(speech).snap \in timers' ]_vars

\* C17: whatever its outcome (a reply, a body without reply text, an
\* exception), the completion of a request sets isProcessing back to false;
\* busy is never true without an outstanding request.
C17_BusyCleared ==
  [][ /\ \A r \in requests :
           (ReplyFailed(r) \/ \E data \in Payloads : ReplyReceived(r, data))
             => ~isProcessing'
      /\ isProcessing' => requests' # {} ]_vars

\* C17 witness: an utterance was captured, its request was issued and has
\* completed with a reply, and busy is false again.
C17_Witness ==
  /\ userText # ""
  /\ conversation # << >>
  /\ requests = {}
  /\ ~isProcessing

\* C18: the transcript has even length and alternates candidate and
\* interviewer turns, candidate first; the opening question is neither a
\* turn of the transcript nor an entry of any request.
C18_TranscriptAlternates ==
  /\ Len(conversation) % 2 = 0
  /\ \A i \in DOMAIN conversation :
       /\ conversation[i].role = IF i % 2 = 1 THEN "user" ELSE "model"
       /\ conversation[i].text # FirstQuestion
  /\ \A r \in requests : \A i \in DOMAIN r.contents :
       r.contents[i].text # FirstQuestion

\* C18 witness: after the opening question was spoken, two exchanges are on
\* the transcript and a further request is outstanding.
C18_Witness ==
  /\ Len(conversation) = 4
  /\ requests # {}

\* C19: a request that throws changes nothing but the busy flag: transcript,
\* counter and displayed reply stay, nothing is spoken, no listening is
\* queued or started.
C19_ThrowChangesOnlyBusy ==
  [][ \A r \in requests :
        ReplyFailed(r) =>
          /\ ~isProcessing'
          /\ UNCHANGED << conversation, questionCount, aiText, speech,
                          timers, listening >> ]_vars

\* C19 witness: the first request of a session has thrown: the captured
\* utterance is displayed but not on the transcript, the counter is still 1,
\* the opening question is still the displayed reply and nothing is pending.
C19_Witness ==
  /\ userText # ""
  /\ conversation = << >>
  /\ questionCount = 1
  /\ aiText = FirstQuestion
  /\ ~isProcessing
  /\ Pending = 0

====
